---- MODULE Spec2Model ----
(***************************************************************************)
(* Model of the Postgres RDBC driver (rdbc-postgres/src/lib.rs):           *)
(* PConnection::prepare (tokenise, map `?` to `$n`, render), PStatement    *)
(* (execute_query / execute_update against the backend), PResultSet (the   *)
(* cursor i over the materialised rows and its typed accessors) and        *)
(* to_postgres_value.                                                      *)
(*                                                                         *)
(* SQL text is a sequence of one-character strings.  The lexical rules of  *)
(* Tokenize and the rendering of Display are those of the sqlparser        *)
(* tokenizer that prepare calls with PostgreSqlDialect; the typing rules   *)
(* of the accessors are those of the postgres client that PResultSet       *)
(* calls.  A Rust panic (unwrap on Err, index out of bounds, wrong column  *)
(* type) ends the run: `panicked` disables every action.                   *)
(***************************************************************************)
EXTENDS Integers, Sequences, FiniteSets, TLC

VARIABLES
    prep,       \* the call of Connection.prepare that made the live statement (or panicked)
    stmt,       \* the live PStatement (its field sql), or NoStmt
    calls,      \* number of calls the backend (postgres Connection) has received
    execs,      \* number of execute_query / execute_update calls made by the caller
    errs,       \* number of those that returned Err
    lastCall,   \* the last backend call: operation, SQL text, native parameters
    result,     \* what the last execute_query / execute_update returned to the caller
    rs,         \* the live PResultSet (fields i, rows), or NoRs
    nextCalls,  \* calls of next() on the live result set
    trueCalls,  \* calls of next() on the live result set that returned true
    lastNext,   \* return value of the last next() on the live result set
    sawFalse,   \* next() has returned false on the live result set
    lastGet,    \* the last accessor call since the last next(), with its result
    panicked    \* the thread has panicked

vars == <<prep, stmt, calls, execs, errs, lastCall, result, rs, nextCalls, trueCalls,
          lastNext, sawFalse, lastGet, panicked>>

-----------------------------------------------------------------------------
(* Bounds *)

MaxLen == 4         \* longest SQL text handed to prepare (in characters)
MaxRows == 2        \* most rows the backend materialises for one query
MaxCalls == 2       \* most backend calls in one run
MaxExtraNext == 2   \* calls of next() allowed beyond the row count

\* The characters SQL texts are drawn from: an identifier letter, the neutral
\* marker, both quote characters, a blank, and the sigil and a digit of the
\* native placeholder.
Alphabet == {"a", "?", "'", "\"", " ", "$", "1"}

RECURSIVE TextsOfLen(_)
TextsOfLen(n) ==
    IF n = 0 THEN {<<>>}
    ELSE {Append(s, c) : s \in TextsOfLen(n - 1), c \in Alphabet}

SqlTexts == UNION {TextsOfLen(n) : n \in 0..MaxLen}

\* The texts prepared in a session that goes on to execute.
SessionTexts == {<<"a">>, <<"a", " ", "?">>}

-----------------------------------------------------------------------------
(* sqlparser tokens.  Every token is a record of one shape:                *)
(*   Token::Char(c)               kind "Char", value <<c>>                 *)
(*   Token::Word(Word{..})        kind "Word", value, quote_style, keyword *)
(*   Token::Number(s)             kind "Number", value s                   *)
(*   Token::SingleQuotedString(s) kind "SingleQuotedString", value s       *)
(*   Token::Whitespace(Space)     kind "Whitespace", value <<" ">>         *)
(* quote_style "" is None; keyword <<>> is the empty string.               *)

Tok(kind, value, quote) ==
    [kind |-> kind, value |-> value, quote_style |-> quote, keyword |-> <<>>]

\* PostgreSqlDialect::is_identifier_start / is_identifier_part, cut to the alphabet.
IdentStart == {"a"}
IdentPart == {"a", "1", "$"}
Digits == {"1"}

\* peeking_take_while: the first position from p on whose character is not in S.
SpanEnd(s, p, S) ==
    CHOOSE q \in p..(Len(s) + 1) :
        /\ \A r \in p..(q - 1) : s[r] \in S
        /\ (q = Len(s) + 1 \/ s[q] \notin S)

SubText(s, p, q) == [k \in 1..(q - p) |-> s[p + k - 1]]

\* tokenize_single_quoted_string, from the character after the opening quote:
\* '' is an escaped quote, a single ' closes, and the end of the text closes
\* the literal as well.
RECURSIVE ScanSingleQuoted(_, _, _)
ScanSingleQuoted(s, p, acc) ==
    IF p > Len(s) THEN [value |-> acc, next |-> p]
    ELSE IF s[p] = "'"
         THEN IF p + 1 <= Len(s) /\ s[p + 1] = "'"
              THEN ScanSingleQuoted(s, p + 2, Append(acc, "'"))
              ELSE [value |-> acc, next |-> p + 1]
         ELSE ScanSingleQuoted(s, p + 1, Append(acc, s[p]))

\* Tokenizer::tokenize from position p: Ok(tokens) or Err (a delimited
\* identifier with no closing quote before the end of the text).
RECURSIVE TokenizeFrom(_, _, _)
TokenizeFrom(s, p, acc) ==
    IF p > Len(s) THEN [ok |-> TRUE, toks |-> acc]
    ELSE LET c == s[p] IN
      CASE c = " " ->
             TokenizeFrom(s, p + 1, Append(acc, Tok("Whitespace", <<" ">>, "")))
        [] c = "'" ->
             LET lit == ScanSingleQuoted(s, p + 1, <<>>) IN
             TokenizeFrom(s, lit.next,
                          Append(acc, Tok("SingleQuotedString", lit.value, "")))
        [] c = "\"" ->
             LET q == SpanEnd(s, p + 1, Alphabet \ {"\""}) IN
             IF q <= Len(s)
             THEN TokenizeFrom(s, q + 1,
                               Append(acc, Tok("Word", SubText(s, p + 1, q), "\"")))
             ELSE [ok |-> FALSE, toks |-> <<>>]
        [] c \in IdentStart ->
             LET q == SpanEnd(s, p, IdentPart) IN
             TokenizeFrom(s, q, Append(acc, Tok("Word", SubText(s, p, q), "")))
        [] c \in Digits ->
             LET q == SpanEnd(s, p, Digits) IN
             TokenizeFrom(s, q, Append(acc, Tok("Number", SubText(s, p, q), "")))
        [] OTHER ->
             TokenizeFrom(s, p + 1, Append(acc, Tok("Char", <<c>>, "")))

Tokenize(s) == TokenizeFrom(s, 1, <<>>)

\* impl Display for Token (and for Word).
Display(t) ==
    CASE t.kind = "SingleQuotedString" -> <<"'">> \o t.value \o <<"'">>
      [] t.kind = "Word" /\ t.quote_style = "\"" -> <<"\"">> \o t.value \o <<"\"">>
      [] OTHER -> t.value

-----------------------------------------------------------------------------
(* PConnection::prepare *)

DigitChar(d) == <<"0", "1", "2", "3", "4", "5", "6", "7", "8", "9">>[d + 1]

\* The decimal rendering of i, as format!("{}", i) writes it.
RECURSIVE Decimal(_)
Decimal(n) ==
    IF n < 10 THEN <<DigitChar(n)>>
    ELSE Append(Decimal(n \div 10), DigitChar(n % 10))

\* Mutant of IsPlaceholder: matches on the token's text, whatever its kind.
IsPlaceholderAnyKind(t) == t.value = <<"?">>

\* The match arm `Token::Char(c) if *c == '?'`.
IsPlaceholder(t) == t.kind = "Char" /\ t.value = <<"?">>

\* Mutant of NextOrdinal: the counter is never advanced.
NextOrdinalStuck(i) == IF i = 0 THEN 1 ELSE i

\* `i += 1`.
NextOrdinal(i) == i + 1

\* The token a placeholder is replaced by: Word { value: format!("${}", i), .. }.
PlaceholderWord(i) == Tok("Word", <<"$">> \o Decimal(i), "")

\* Mutant of PassThrough: the clone loses the quote style.
PassThroughUnquoted(t) == [t EXCEPT !.quote_style = ""]

\* The match arm `_ => t.clone()`.
PassThrough(t) == t

\* tokens.iter().map(|t| ..).collect(), with the captured counter i.
RECURSIVE MapTokens(_, _, _, _)
MapTokens(toks, p, i, acc) ==
    IF p > Len(toks) THEN acc
    ELSE IF IsPlaceholder(toks[p])
         THEN MapTokens(toks, p + 1, NextOrdinal(i),
                        Append(acc, PlaceholderWord(NextOrdinal(i))))
         ELSE MapTokens(toks, p + 1, i, Append(acc, PassThrough(toks[p])))

\* tokens.iter().map(|t| format!("{}", t)).collect::<Vec<String>>().join("").
RECURSIVE Join(_, _)
Join(toks, p) ==
    IF p > Len(toks) THEN <<>> ELSE Display(toks[p]) \o Join(toks, p + 1)

NoStmt == [live |-> FALSE, sql |-> <<>>]
NoPrep == [called |-> FALSE, sql |-> <<>>, outcome |-> "none",
           tokens |-> <<>>, mapped |-> <<>>]

\* Connection.prepare(sql).  tokenize().unwrap() panics on Err; otherwise the
\* statement holds the rendering of the mapped tokens.  No backend call is made.
Prepare(sql) ==
    /\ ~panicked
    /\ ~stmt.live
    /\ LET tz == Tokenize(sql) IN
       IF tz.ok
       THEN LET mapped == MapTokens(tz.toks, 1, 0, <<>>) IN
            /\ prep' = [called |-> TRUE, sql |-> sql, outcome |-> "Ok",
                        tokens |-> tz.toks, mapped |-> mapped]
            /\ stmt' = [live |-> TRUE, sql |-> Join(mapped, 1)]
            /\ panicked' = FALSE
       ELSE /\ prep' = [called |-> TRUE, sql |-> sql, outcome |-> "panic",
                        tokens |-> <<>>, mapped |-> <<>>]
            /\ stmt' = NoStmt
            /\ panicked' = TRUE
    /\ UNCHANGED <<calls, execs, errs, lastCall, result, rs, nextCalls,
                   trueCalls, lastNext, sawFalse, lastGet>>


\* Dropping the statement releases the borrow of the connection.
DropStatement ==
    /\ ~panicked
    /\ stmt.live
    /\ ~rs.live
    /\ stmt' = NoStmt
    /\ prep' = NoPrep
    /\ UNCHANGED <<calls, execs, errs, lastCall, result, rs, nextCalls,
                   trueCalls, lastNext, sawFalse, lastGet, panicked>>

-----------------------------------------------------------------------------
(* rdbc::Value and to_postgres_value *)

StringValue(s) == [tag |-> "String", int |-> 0, text |-> s]
Int32Value(n) == [tag |-> "Int32", int |-> n, text |-> <<>>]
UInt32Value(n) == [tag |-> "UInt32", int |-> n, text |-> <<>>]

Values == {StringValue(<<"x">>), Int32Value(123), UInt32Value(7)}

\* The parameter vectors handed to execute_query / execute_update.
ParamLists == {<<>>} \cup {<<v>> : v \in Values}

\* One boxed ToSql value: String, i32 or u32.  `ty` is the Postgres type the
\* boxed Rust type converts to and from: String - TEXT, i32 - INT4, u32 - OID.
ToSqlBox(v) ==
    CASE v.tag = "String" -> [ty |-> "TEXT", null |-> FALSE, int |-> 0, text |-> v.text]
      [] v.tag = "Int32" -> [ty |-> "INT4", null |-> FALSE, int |-> v.int, text |-> <<>>]
      [] v.tag = "UInt32" -> [ty |-> "OID", null |-> FALSE, int |-> v.int, text |-> <<>>]

\* values.iter().map(..).collect(): one box per value, in order.
to_postgres_value(values) == [k \in 1..Len(values) |-> ToSqlBox(values[k])]

-----------------------------------------------------------------------------
(* The backend.  What it answers is its own choice: an error, or rows (a   *)
(* query), or a count (an update).  A materialised row has an INT4, a TEXT *)
(* and an OID column; a cell is a native value or NULL.                    *)

NullCell(ty) == [ty |-> ty, null |-> TRUE, int |-> 0, text |-> <<>>]

Row1 == <<ToSqlBox(Int32Value(123)), ToSqlBox(StringValue(<<"x">>)), ToSqlBox(UInt32Value(7))>>
Row2 == <<ToSqlBox(Int32Value(-1)), NullCell("TEXT"), ToSqlBox(UInt32Value(7))>>
Row3 == <<NullCell("INT4"), ToSqlBox(StringValue(<<"y">>)), ToSqlBox(UInt32Value(7))>>
RowPool == {Row1, Row2, Row3}

RECURSIVE RowSeqs(_)
RowSeqs(n) ==
    IF n = 0 THEN {<<>>}
    ELSE {Append(rows, r) : rows \in RowSeqs(n - 1), r \in RowPool}

RowSets == UNION {RowSeqs(n) : n \in 0..MaxRows}

Diags == {"syntax error", "wrong type"}

BackendErr(d) == [ok |-> FALSE, diag |-> d, rows |-> <<>>, n |-> 0]
QueryResponses ==
    {BackendErr(d) : d \in Diags}
    \cup {[ok |-> TRUE, diag |-> "", rows |-> rows, n |-> 0] : rows \in RowSets}
UpdateResponses ==
    {BackendErr(d) : d \in Diags}
    \cup {[ok |-> TRUE, diag |-> "", rows |-> <<>>, n |-> n] : n \in 0..1}

\* Column indices the accessors are called with (1-based; 0 and one past the
\* row width are out of range).
ColIdx == 0..(Len(Row1) + 1)

-----------------------------------------------------------------------------
(* PStatement *)

\* format!("{:?}", e): the Debug rendering of the backend error, which holds
\* its diagnostic text.
DebugFmt(diag) == <<"Error", "(", diag, ")">>

\* Mutant of to_rdbc_err: the diagnostic is dropped.
to_rdbc_err_opaque(diag) == [kind |-> "General", msg |-> <<"Error">>]

\* to_rdbc_err: rdbc::Error::General(format!("{:?}", e)).
to_rdbc_err(diag) == [kind |-> "General", msg |-> DebugFmt(diag)]

NoResult == [tag |-> "none", err |-> [kind |-> "", msg |-> <<>>], n |-> 0]
NoCall == [op |-> "none", sql |-> <<>>, params |-> <<>>, ok |-> TRUE, diag |-> ""]
NoRs == [live |-> FALSE, i |-> 0, rows |-> <<>>]
NoGet == [called |-> FALSE, acc |-> "", col |-> 0, tag |-> "none",
          int |-> 0, text |-> <<>>]

CanExecute == ~panicked /\ stmt.live /\ ~rs.live /\ calls < MaxCalls

\* Statement.execute_query(params): one backend call; Err maps through
\* to_rdbc_err, Ok(rows) becomes PResultSet { i: 0, rows }.
ExecuteQuery(params, resp) ==
    /\ CanExecute
    /\ execs' = execs + 1
    /\ calls' = calls + 1
    /\ lastCall' = [op |-> "query", sql |-> stmt.sql,
                    params |-> to_postgres_value(params),
                    ok |-> resp.ok, diag |-> resp.diag]
    /\ IF resp.ok
       THEN /\ result' = [NoResult EXCEPT !.tag = "ResultSet"]
            /\ rs' = [live |-> TRUE, i |-> 0, rows |-> resp.rows]
            /\ errs' = errs
       ELSE /\ result' = [NoResult EXCEPT !.tag = "Err", !.err = to_rdbc_err(resp.diag)]
            /\ rs' = NoRs
            /\ errs' = errs + 1
    /\ nextCalls' = 0
    /\ trueCalls' = 0
    /\ lastNext' = FALSE
    /\ sawFalse' = FALSE
    /\ lastGet' = NoGet
    /\ UNCHANGED <<prep, stmt, panicked>>

\* Statement.execute_update(params): one backend call; Err maps through
\* to_rdbc_err, Ok(n) is returned as the count.
ExecuteUpdate(params, resp) ==
    /\ CanExecute
    /\ execs' = execs + 1
    /\ calls' = calls + 1
    /\ lastCall' = [op |-> "execute", sql |-> stmt.sql,
                    params |-> to_postgres_value(params),
                    ok |-> resp.ok, diag |-> resp.diag]
    /\ IF resp.ok
       THEN /\ result' = [NoResult EXCEPT !.tag = "Count", !.n = resp.n]
            /\ errs' = errs
       ELSE /\ result' = [NoResult EXCEPT !.tag = "Err", !.err = to_rdbc_err(resp.diag)]
            /\ errs' = errs + 1
    /\ UNCHANGED <<prep, stmt, rs, nextCalls, trueCalls, lastNext, sawFalse,
                   lastGet, panicked>>

-----------------------------------------------------------------------------
(* PResultSet *)

\* Mutant of NextReturns: the bound is tested with <=.
NextReturnsInclusive(i, n) == i <= n

\* next(): the test `self.i < self.rows.len()`, which is also the return value.
NextReturns(i, n) == i < n

\* Mutant of CursorAfterNext: an exhausted cursor starts over.
CursorAfterNextWrap(i, n) == IF NextReturns(i, n) THEN i + 1 ELSE 0

\* next(): `self.i = self.i + 1` in the true branch, nothing in the other.
CursorAfterNext(i, n) == IF NextReturns(i, n) THEN i + 1 ELSE i

\* ResultSet.next().
RsNext ==
    /\ ~panicked
    /\ rs.live
    /\ nextCalls < Len(rs.rows) + MaxExtraNext
    /\ LET n == Len(rs.rows)
           ret == NextReturns(rs.i, n)
       IN /\ rs' = [rs EXCEPT !.i = CursorAfterNext(rs.i, n)]
          /\ lastNext' = ret
          /\ trueCalls' = IF ret THEN trueCalls + 1 ELSE trueCalls
          /\ sawFalse' = (sawFalse \/ ~ret)
    /\ nextCalls' = nextCalls + 1
    /\ lastGet' = NoGet
    /\ UNCHANGED <<prep, stmt, calls, execs, errs, lastCall, result, panicked>>

\* Mutant of RowIndex: the cursor is used as the index.
RowIndexNoOffset(i) == i

\* `self.i - 1`, the zero-based index of the positioned row.  At i = 0 the
\* usize subtraction overflows: a panic with overflow checks, usize::MAX
\* without.  Both are out of range of every row set; -1 stands for them.
RowIndex(i) == i - 1

\* rows.get(idx).get(c - 1) read as Option<T>, T of Postgres type ty: a panic
\* when the row or the column index is out of range or the column is of
\* another type, None for NULL, Some(value) otherwise.
TypedGet(rows, idx, c, acc, ty) ==
    IF idx < 0 \/ idx >= Len(rows) \/ c - 1 < 0 \/ c - 1 >= Len(rows[idx + 1])
    THEN [NoGet EXCEPT !.called = TRUE, !.acc = acc, !.col = c, !.tag = "panic"]
    ELSE LET cell == rows[idx + 1][c] IN
         IF cell.ty # ty
         THEN [NoGet EXCEPT !.called = TRUE, !.acc = acc, !.col = c, !.tag = "panic"]
         ELSE IF cell.null
              THEN [NoGet EXCEPT !.called = TRUE, !.acc = acc, !.col = c, !.tag = "None"]
              ELSE [NoGet EXCEPT !.called = TRUE, !.acc = acc, !.col = c, !.tag = "Some",
                                 !.int = cell.int, !.text = cell.text]

\* get_i32(c): Option<i32>, read from an INT4 column.
get_i32(r, c) == TypedGet(r.rows, RowIndex(r.i), c, "get_i32", "INT4")

\* get_string(c): Option<String>, read from a TEXT column.
get_string(r, c) == TypedGet(r.rows, RowIndex(r.i), c, "get_string", "TEXT")

RsGetI32(c) ==
    /\ ~panicked
    /\ rs.live
    /\ lastGet' = get_i32(rs, c)
    /\ panicked' = (lastGet'.tag = "panic")
    /\ UNCHANGED <<prep, stmt, calls, execs, errs, lastCall, result, rs,
                   nextCalls, trueCalls, lastNext, sawFalse>>

RsGetString(c) ==
    /\ ~panicked
    /\ rs.live
    /\ lastGet' = get_string(rs, c)
    /\ panicked' = (lastGet'.tag = "panic")
    /\ UNCHANGED <<prep, stmt, calls, execs, errs, lastCall, result, rs,
                   nextCalls, trueCalls, lastNext, sawFalse>>

\* Dropping the result set releases the borrow of the statement.
DropResultSet ==
    /\ ~panicked
    /\ rs.live
    /\ rs' = NoRs
    /\ nextCalls' = 0
    /\ trueCalls' = 0
    /\ lastNext' = FALSE
    /\ sawFalse' = FALSE
    /\ lastGet' = NoGet
    /\ UNCHANGED <<prep, stmt, calls, execs, errs, lastCall, result, panicked>>

-----------------------------------------------------------------------------
(* Specifications *)

\* A connection just returned by PostgresDriver::connect.
Init ==
    /\ prep = NoPrep
    /\ stmt = NoStmt
    /\ calls = 0
    /\ execs = 0
    /\ errs = 0
    /\ lastCall = NoCall
    /\ result = NoResult
    /\ rs = NoRs
    /\ nextCalls = 0
    /\ trueCalls = 0
    /\ lastNext = FALSE
    /\ sawFalse = FALSE
    /\ lastGet = NoGet
    /\ panicked = FALSE

\* A session: prepare, execute, walk the result set.
Next ==
    \/ \E s \in SessionTexts : Prepare(s)
    \/ DropStatement
    \/ \E p \in ParamLists, resp \in QueryResponses : ExecuteQuery(p, resp)
    \/ \E p \in ParamLists, resp \in UpdateResponses : ExecuteUpdate(p, resp)
    \/ RsNext
    \/ \E c \in ColIdx : RsGetI32(c)
    \/ \E c \in ColIdx : RsGetString(c)
    \/ DropResultSet

Spec == Init /\ [][Next]_vars

\* prepare over every SQL text of the alphabet up to MaxLen characters.
NextPrepare ==
    \/ \E s \in SqlTexts : Prepare(s)
    \/ DropStatement

SpecPrepare == Init /\ [][NextPrepare]_vars

-----------------------------------------------------------------------------
(* Vocabulary of the properties *)

Range(s) == {s[k] : k \in 1..Len(s)}

\* Positions of the standalone `?` tokens of a token sequence.
MarkerPositions(toks) ==
    {p \in 1..Len(toks) : toks[p].kind = "Char" /\ toks[p].value = <<"?">>}

\* The 1-based rank of position p among the standalone `?` tokens.
MarkerRank(toks, p) == Cardinality({q \in MarkerPositions(toks) : q <= p})

\* Positions of the native placeholders: unquoted words that begin with `$`.
NativePositions(toks) ==
    {p \in 1..Len(toks) :
        /\ toks[p].kind = "Word"
        /\ toks[p].quote_style = ""
        /\ Len(toks[p].value) >= 1
        /\ toks[p].value[1] = "$"}

\* Positions of the quoted strings and quoted identifiers that hold a `?`.
QuotedMarkerPositions(toks) ==
    {p \in 1..Len(toks) :
        /\ \/ toks[p].kind = "SingleQuotedString"
           \/ toks[p].kind = "Word" /\ toks[p].quote_style = "\""
        /\ "?" \in Range(toks[p].value)}

CountChar(s, c) == Cardinality({k \in 1..Len(s) : s[k] = c})

\* The renderings of a token sequence, concatenated in order.
RECURSIVE Renderings(_)
Renderings(toks) ==
    IF toks = <<>> THEN <<>>
    ELSE Renderings(SubSeq(toks, 1, Len(toks) - 1)) \o Display(toks[Len(toks)])

Contains(msg, d) == \E k \in 1..Len(msg) : msg[k] = d

-----------------------------------------------------------------------------
(* Properties of prepare (checked under SpecPrepare) *)

\* C1: after prepare has tokenised a text with k standalone `?` tokens, the
\* j-th of them (left to right) has become the word `$j`, the native
\* placeholders of the output are exactly these k words, no standalone `?`
\* token is left, and the statement's text holds no `?` but those inside the
\* literals of the input.
C1_PlaceholdersNumbered ==
    prep.outcome = "Ok" =>
        LET in == prep.tokens
            out == prep.mapped
        IN /\ Len(out) = Len(in)
           /\ \A p \in MarkerPositions(in) :
                 out[p] = Tok("Word", <<"$">> \o Decimal(MarkerRank(in, p)), "")
           /\ NativePositions(out) = MarkerPositions(in)
           /\ MarkerPositions(out) = {}
           /\ stmt.live
           /\ CountChar(stmt.sql, "?")
                = CountChar(prep.sql, "?") - Cardinality(MarkerPositions(in))

\* prepare has rewritten a text with two standalone `?` tokens.
C1_Witness ==
    /\ prep.outcome = "Ok"
    /\ Cardinality(MarkerPositions(prep.tokens)) >= 2
    /\ stmt.live

\* C2: a quoted string or quoted identifier that holds a `?` is emitted as it
\* was and takes no ordinal: a standalone `?` after it is numbered by its rank
\* among the standalone `?` tokens alone, and `'?'?` becomes `'?'$1`.
C2_QuotedMarkerKept ==
    prep.outcome = "Ok" =>
        LET in == prep.tokens
            out == prep.mapped
        IN /\ \A p \in QuotedMarkerPositions(in) :
                 /\ out[p] = in[p]
                 /\ \A q \in MarkerPositions(in) :
                       q > p => out[q].value = <<"$">> \o Decimal(MarkerRank(in, q))
           /\ (QuotedMarkerPositions(in) # {} /\ MarkerPositions(in) = {})
                 => CountChar(stmt.sql, "$") = CountChar(prep.sql, "$")
           /\ prep.sql = <<"'", "?", "'", "?">> => stmt.sql = <<"'", "?", "'", "$", "1">>

\* prepare has rewritten a text where a quoted `?` precedes a standalone `?`.
C2_Witness ==
    /\ prep.outcome = "Ok"
    /\ \E p \in QuotedMarkerPositions(prep.tokens) :
          \E q \in MarkerPositions(prep.tokens) : q > p
    /\ stmt.live

\* C3: when tokenisation of the text fails, prepare returns a SyntaxError
\* value, makes no statement, sends nothing to the backend (and the caller
\* goes on running).
C3_SyntaxErrorReturned ==
    (prep.called /\ ~Tokenize(prep.sql).ok) =>
        /\ prep.outcome = "SyntaxError"
        /\ ~stmt.live
        /\ calls = 0
        /\ ~panicked

\* C9: the mapped token sequence is as long as the input's, every token that
\* is not a standalone `?` is the input's token at the same position, and for
\* a text with no standalone `?` the statement's text is the concatenation of
\* the renderings of the input tokens.
C9_OtherTokensUnchanged ==
    prep.outcome = "Ok" =>
        LET in == prep.tokens
            out == prep.mapped
        IN /\ Len(out) = Len(in)
           /\ \A p \in (1..Len(in)) \ MarkerPositions(in) : out[p] = in[p]
           /\ MarkerPositions(in) = {} => stmt.sql = Renderings(in)

\* prepare has rewritten a text with no standalone `?` that holds a quoted
\* identifier and another token.
C9_Witness ==
    /\ prep.outcome = "Ok"
    /\ MarkerPositions(prep.tokens) = {}
    /\ Len(prep.tokens) >= 2
    /\ \E p \in 1..Len(prep.tokens) : prep.tokens[p].quote_style = "\""
    /\ stmt.live

-----------------------------------------------------------------------------
(* Properties of the statement and the result set (checked under Spec) *)

\* C4: once next() has returned false on a result set, every later next() on
\* it returns false and neither the cursor nor the rows change.
C4_ExhaustedIsTerminal ==
    [][(rs.live /\ sawFalse /\ rs'.live) =>
          /\ rs' = rs
          /\ sawFalse'
          /\ (nextCalls' # nextCalls => ~lastNext')]_vars

\* next() has been called again after it returned false on a result set that
\* has a row.
C4_Witness ==
    /\ rs.live
    /\ sawFalse
    /\ Len(rs.rows) >= 1
    /\ nextCalls >= Len(rs.rows) + 2

\* C5: after next() has returned false on a result set that had a row, no
\* accessor call returns a value (Some) of a row.
C5_NoValueAfterExhaustion ==
    (rs.live /\ sawFalse /\ Len(rs.rows) >= 1 /\ lastGet.called) =>
        lastGet.tag # "Some"

\* C6: on a result set of n rows the first n calls of next() return true and
\* the next one false, the cursor stands on the j-th row after the j-th true,
\* and an accessor called there on column c of the accessor's type returns
\* the cell c of row j: Some(value), or None for NULL.
C6_RowsInOrder ==
    rs.live =>
        LET n == Len(rs.rows) IN
        /\ trueCalls = (IF nextCalls <= n THEN nextCalls ELSE n)
        /\ rs.i = trueCalls
        /\ nextCalls >= 1 => lastNext = (nextCalls <= n)
        /\ sawFalse = (nextCalls > n)
        /\ (lastGet.called /\ trueCalls >= 1 /\ ~sawFalse
              /\ lastGet.col \in 1..Len(rs.rows[trueCalls])) =>
              LET cell == rs.rows[trueCalls][lastGet.col]
                  ty == IF lastGet.acc = "get_i32" THEN "INT4" ELSE "TEXT"
              IN /\ lastGet.tag = "Some" =>
                      /\ ~cell.null
                      /\ lastGet.int = cell.int
                      /\ lastGet.text = cell.text
                 /\ (cell.ty = ty /\ ~cell.null) => lastGet.tag = "Some"
                 /\ (cell.ty = ty /\ cell.null) => lastGet.tag = "None"

\* get_i32(1) has returned a value on the second row of a result set whose
\* two rows differ in column 1.
C6_Witness ==
    /\ rs.live
    /\ Len(rs.rows) >= 2
    /\ trueCalls = 2
    /\ ~sawFalse
    /\ rs.rows[1][1] # rs.rows[2][1]
    /\ lastGet.called /\ lastGet.acc = "get_i32" /\ lastGet.col = 1
    /\ lastGet.tag = "Some"

\* C7: for every Value v, some accessor of the result set, called on a cell
\* that holds the native value to_postgres_value makes of v, returns Some of
\* v's payload.
C7_RoundTrip ==
    \A v \in Values :
        \A c \in ColIdx :
            (rs.live /\ rs.i >= 1 /\ c \in 1..Len(rs.rows[rs.i])
               /\ rs.rows[rs.i][c] = to_postgres_value(<<v>>)[1]) =>
                \E r \in {get_i32(rs, c), get_string(rs, c)} :
                    r.tag = "Some" /\ r.int = v.int /\ r.text = v.text

\* C8: an execute the backend rejects costs one backend call, returns Err
\* with the backend's diagnostic in its text, leaves the statement as it
\* was (its SQL is the SQL the backend was sent) and leaves the statement
\* executable; and every execute, after a rejected one too, is one backend
\* call.
C8_RejectionSurfacedOnce ==
    [][/\ execs' # execs => (execs' = execs + 1 /\ calls' = calls + 1)
       /\ (execs' # execs /\ ~lastCall'.ok) =>
             /\ result'.tag = "Err"
             /\ result'.err.kind = "General"
             /\ Contains(result'.err.msg, lastCall'.diag)
             /\ errs' = errs + 1
             /\ stmt' = stmt
             /\ lastCall'.sql = stmt.sql
             /\ stmt'.live /\ ~rs'.live /\ ~panicked']_vars

\* After a rejected execute, a later execute on the same statement went to
\* the backend and succeeded.
C8_Witness ==
    /\ errs >= 1
    /\ calls = 2
    /\ execs = 2
    /\ stmt.live
    /\ result.tag \in {"ResultSet", "Count"}

\* C10: the cursor of a result set starts at 0 and stays within 0..n; only
\* next() changes it, by exactly 1 when it is below n and not at all
\* otherwise; the accessors leave the result set as it is.
C10_CursorWithinRows ==
    /\ [](rs.live => rs.i \in 0..Len(rs.rows))
    /\ [][/\ (~rs.live /\ rs'.live) => rs'.i = 0
          /\ (rs.live /\ rs'.live) =>
                /\ rs'.rows = rs.rows
                /\ rs'.i >= rs.i
                /\ nextCalls' = nextCalls => rs'.i = rs.i
                /\ nextCalls' # nextCalls =>
                      rs'.i = (IF rs.i < Len(rs.rows) THEN rs.i + 1 ELSE rs.i)
                /\ (lastGet' # lastGet /\ lastGet'.called) => rs' = rs]_vars

\* An accessor has been called on the last row of a two-row result set.
C10_Witness ==
    /\ rs.live
    /\ Len(rs.rows) >= 2
    /\ rs.i = Len(rs.rows)
    /\ lastGet.called

====
